---- MODULE Spec2Model ----
(***************************************************************************)
(* Event ingestion pipeline of Task6: POST /events (authentication, fixed  *)
(* window rate limiter, idempotency guard, push to the Redis list          *)
(* "event_queue"), the batch worker that drains the list into the events   *)
(* table, the analytics queries over that table, and the key-value store's *)
(* own behaviour (key expiry, loss of markers, other writers of the list). *)
(* Every await of the code is one atomic step of the model.                *)
(***************************************************************************)
EXTENDS Integers, Sequences, FiniteSets, TLC

\* ---------------------------------------------------------------- bounds
MaxReqs == 3          \* requests submitted in one behaviour of Spec
MaxRateReqs == 4      \* requests submitted in one behaviour of SpecRate
MaxTicks == 2         \* clock ticks in one behaviour of SpecRate
MaxLoss == 1          \* times the key-value store loses its markers
MaxForeign == 1       \* envelopes pushed by a writer other than ingest_event
MaxBatchReqs == 2     \* requests submitted in one behaviour of SpecBatch
MaxCoreReqs == 2      \* requests of SpecCore
MaxClientReqs == 4    \* requests submitted in one behaviour of SpecClients
MaxRows == 3          \* rows of the events table in SpecAnalytics

\* ------------------------------------------------------ program constants
\* Both are read from the environment at start-up (default 100); the model
\* runs a deployment that sets them to 2.
RATE_LIMIT == 2       \* settings.RATE_LIMIT
BATCH_SIZE == 2       \* settings.BATCH_SIZE
WINDOW == 60          \* r.expire(key, 60)

TickSeconds == WINDOW \div 2   \* the clock advances by half a window
NoTTL == 0 - 1        \* Redis TTL of a key without expiry; "no instant"
Instants == {i * TickSeconds : i \in 0..MaxTicks}
Slots == {1, 2}       \* request handlers that can be in flight together

\* clients table: Client(id, api_key, is_active)
ClientTable ==
    { [id |-> 1, api_key |-> "k1", is_active |-> TRUE],
      [id |-> 2, api_key |-> "k2", is_active |-> TRUE],
      [id |-> 3, api_key |-> "k3", is_active |-> FALSE] }

\* values of the X-API-Key header; "" is a missing header, "kx" is unknown
ApiKeys == {"", "k1", "k2", "k3", "kx"}
ClientIds == {c.id : c \in ClientTable}

\* EventCreate: event_id, event_type, timestamp (datetime), payload (Dict).
\* A datetime is its instant in seconds and whether it carries a UTC offset.
\* Event ids are opaque: a request carries an id already submitted or the
\* next unused one of EventIdSeq.
EventIdSeq == <<"e1", "e2", "e3", "e4">>
EventIds == {EventIdSeq[i] : i \in DOMAIN EventIdSeq}
IdIndex(e) == CHOOSE i \in DOMAIN EventIdSeq : EventIdSeq[i] = e
EventTypes == {"click", "view"}
\* payload: Dict, a JSON object; its keys are taken in the order of PayloadKeys
PayloadKeys == <<"a", "b">>
Payloads == { [a |-> 1], [a |-> 2, b |-> 1] }
DateTimes == [sec : {0, 30}, aware : BOOLEAN]
EventCreate ==
    [event_id : EventIds, event_type : EventTypes,
     timestamp : DateTimes, payload : Payloads]

\* variant: fields that EventCreate does not declare are kept (extra = allow)
ParseBodyAllowExtra(body) == body

\* event: EventCreate, the validated body: fields that the model does not
\* declare are ignored, event.dict() has the four declared fields
EventFields == {"event_id", "event_type", "timestamp", "payload"}
ParseBody(body) == [f \in EventFields |-> body[f]]

Pairs == ClientIds \X EventIds

\* processes running worker.py against the same queue and database
Workers == {1, 2}

\* start=None, end=None of GET /analytics/count
None == NoTTL

Accepted == "Event accepted"
Duplicate == "Duplicate event ignored"

VARIABLES
    now,        \* wall clock, seconds
    rate,       \* Redis keys rate:{api_key}: [count, deadline]; count 0 = no key
    idemp,      \* Redis keys idemp:{client_id}:{event_id} that exist
    queue,      \* Redis list event_queue, index 1 = left end
    events,     \* rows of table events, in insertion order (index = id)
    handler,    \* per slot: the request being handled and its position
    worker,     \* per worker process: position, batch popped so far, the
                \* batch of the last transaction and the line printed about it
    reply,      \* the last response of an analytics endpoint
    audit_logs, \* rows of table audit_logs, in insertion order
    started,    \* history: number of requests submitted
    usedIds,    \* history: number of distinct event ids submitted
    losses,     \* history: number of times markers were lost
    firsts,     \* history: per (client_id, event_id), setnx calls that returned true
    accepted,   \* history: per (client_id, event_id), responses "Event accepted"
    pushes,     \* history: per (client_id, event_id), envelopes pushed
    admitLog,   \* history: per api_key and instant, the requests that passed
                \* check_rate_limit then and those of them that were queued
    born,       \* history: per api_key, instants at which a rate counter was created
    life,       \* history: per api_key, passes and denials of the current counter
    pushLog,    \* history: the items pushed to event_queue, in the order pushed
    recv        \* history: per worker, the envelopes pop_batch returned, in order

hist == <<started, usedIds, losses, firsts, accepted, pushes, admitLog, born, life>>
flow == <<pushLog, recv>>
vars == <<now, rate, idemp, queue, events, handler, worker, reply, audit_logs,
          hist, flow>>

\* ------------------------------------------------------------ security.py
\* select(Client).where(Client.api_key == api_key) ... scalar_one_or_none()
LookupClient(api_key) == {c \in ClientTable : c.api_key = api_key}

\* variant: the is_active test is forgotten
GetCurrentClientAnyRow(api_key) ==
    IF api_key = "" \/ LookupClient(api_key) = {}
    THEN [status |-> 401, detail |-> "Invalid API key", client_id |-> 0]
    ELSE [status |-> 0, detail |-> "",
          client_id |-> (CHOOSE c \in LookupClient(api_key) : TRUE).id]

\* get_current_client: 401 on a missing, unknown or inactive key, else the client
GetCurrentClient(api_key) ==
    IF api_key = ""
    THEN [status |-> 401, detail |-> "API key required", client_id |-> 0]
    ELSE IF LookupClient(api_key) = {}
            \/ \E c \in LookupClient(api_key) : ~c.is_active
    THEN [status |-> 401, detail |-> "Invalid API key", client_id |-> 0]
    ELSE [status |-> 0, detail |-> "",
          client_id |-> (CHOOSE c \in LookupClient(api_key) : TRUE).id]

\* ---------------------------------------------------------- rate_limit.py
\* variant: one counter for all credentials
RateKeyShared(api_key) == "k1"

\* key = f"rate:{api_key}"
RateKey(api_key) == api_key

\* variant: the counter saturates once it is past the limit
RedisIncrSaturates(entry) ==
    IF entry.count > RATE_LIMIT THEN entry
    ELSE [entry EXCEPT !.count = entry.count + 1]

\* r.incr(key): a missing key counts from 0 and is created without expiry
RedisIncr(entry) == [entry EXCEPT !.count = entry.count + 1]

\* variant: the counter expires after half the window
RedisExpireHalf(entry, t) ==
    IF entry.count = 0 THEN entry
    ELSE [entry EXCEPT !.deadline = t + (WINDOW \div 2)]

\* r.expire(key, 60): no effect on a missing key
RedisExpire(entry, t) ==
    IF entry.count = 0 THEN entry ELSE [entry EXCEPT !.deadline = t + WINDOW]

\* variant: every request sets the expiry again
NeedsExpireAlways(count) == TRUE

\* if count == 1: await r.expire(key, 60)
NeedsExpire(count) == count = 1

\* variant: the comparison is off by one
RateExceededLate(count) == count > RATE_LIMIT + 1

\* if count > settings.RATE_LIMIT: raise HTTPException(429)
RateExceeded(count) == count > RATE_LIMIT

\* Redis drops a key once its deadline has passed
Expired(entry, t) == entry.deadline # NoTTL /\ entry.deadline <= t
NoEntry == [count |-> 0, deadline |-> NoTTL]

\* --------------------------------------------------------------- queue.py
\* variant: the key leaves the client out
IdempKeyEventOnly(client_id, event_id) == <<0, event_id>>

\* idemp_key = f"{client.id}:{event.event_id}" ; key idemp:{idemp_key}
IdempKey(client_id, event_id) == <<client_id, event_id>>

\* variants: r.set in place of r.setnx (always true); the key is not stored
SetAlwaysTrue(store, key) == TRUE
SetnxForgets(store, key) == store

\* r.setnx(key, 1): true iff the key did not exist; the key exists afterwards
SetnxResult(store, key) == key \notin store
SetnxStore(store, key) == store \cup {key}

\* str(datetime): "YYYY-MM-DD HH:MM:SS" and "+00:00" only for an aware value
DateTimeStr(dt) == IF dt.aware THEN <<dt.sec, "+00:00">> ELSE <<dt.sec>>

\* json.dumps of a JSON object: the text lists its key/value pairs
JsonDumps(obj) ==
    LET keys == SelectSeq(PayloadKeys, LAMBDA k : k \in DOMAIN obj)
    IN [i \in 1..Len(keys) |-> <<keys[i], obj[keys[i]]>>]

\* variant: only the first key/value pair is read
JsonLoadsFirst(text) == [k \in {text[1][1]} |-> text[1][2]]

\* json.loads of such a text: the object with these keys and values
JsonLoads(text) ==
    [k \in {text[i][1] : i \in DOMAIN text} |->
        text[CHOOSE i \in DOMAIN text : text[i][1] = k][2]]

\* {"client_id": client.id, **event.dict()}: a key of the second dict
\* replaces the same key written before it
EnvelopeDict(client_id, d) ==
    [k \in {"client_id"} \cup DOMAIN d |->
        IF k \in DOMAIN d THEN d[k] ELSE client_id]

\* json.dumps({"client_id": client.id, **event.dict()}, default=str)
Serialize(client_id, ev) ==
    LET d == EnvelopeDict(client_id, ev)
    IN [k \in DOMAIN d |->
           IF k = "timestamp" THEN DateTimeStr(d[k])
           ELSE IF k = "payload" THEN JsonDumps(d[k])
           ELSE d[k]]

\* json.loads(item): the timestamp stays a string
Deserialize(item) == [item EXCEPT !.payload = JsonLoads(@)]

\* variant: the item is pushed at the end rpop takes from
Rpush(list, item) == list \o <<item>>

\* r.lpush("event_queue", item)
Lpush(list, item) == <<item>> \o list

\* r.rpop("event_queue") on a non-empty list
RpopItem(list) == list[Len(list)]

\* variants: the item is left in the list; the item is put back at the left end
RpopKeeps(list) == list
RpopRotates(list) == <<list[Len(list)]>> \o SubSeq(list, 1, Len(list) - 1)

RpopRest(list) == SubSeq(list, 1, Len(list) - 1)

\* variant: an empty batch is handled like any other
NeverEmpty(batch) == FALSE

\* worker: if not batch
NotBatch(batch) == batch = <<>>

\* variant: the loop makes one more iteration
BatchOneMore(batch) == Len(batch) > BATCH_SIZE

\* for _ in range(batch_size): the loop ends after batch_size items
BatchFull(batch) == Len(batch) >= BATCH_SIZE

\* -------------------------------------------------------------- worker.py
\* the keys the worker reads from an envelope
Fields == {"client_id", "event_id", "event_type", "timestamp", "payload"}

\* datetime.fromisoformat(data["timestamp"]); ValueError on any other string
IsoParses(s) == Len(s) \in {1, 2}
FromIsoFormat(s) == [sec |-> s[1], aware |-> Len(s) = 2]

\* the body of the try raises: KeyError for a missing key, ValueError for an
\* unparsable timestamp, TypeError for processed_at - event_timestamp with a
\* naive event_timestamp
BuildRaises(data) ==
    \/ ~(Fields \subseteq DOMAIN data)
    \/ ~IsoParses(data.timestamp)
    \/ ~FromIsoFormat(data.timestamp).aware

\* variant: a negative difference is stored as 0
LatencyMsClamped(processed_at, event_timestamp) ==
    IF processed_at < event_timestamp.sec THEN 0
    ELSE (processed_at - event_timestamp.sec) * 1000

\* int((processed_at - event_timestamp).total_seconds() * 1000)
LatencyMs(processed_at, event_timestamp) ==
    (processed_at - event_timestamp.sec) * 1000

\* Event(client_id=..., ..., status="processed", processing_latency_ms=latency)
EventObj(data, processed_at) ==
    [client_id |-> data.client_id, event_id |-> data.event_id,
     event_type |-> data.event_type,
     event_timestamp |-> FromIsoFormat(data.timestamp),
     processed_at |-> processed_at, payload |-> data.payload,
     status |-> "processed",
     processing_latency_ms |->
         LatencyMs(processed_at, FromIsoFormat(data.timestamp))]

\* variant: the try/except encloses the loop, the first failure ends it
EventsUntilFailure(batch, processed_at) ==
    LET bad == {i \in DOMAIN batch : BuildRaises(batch[i])}
        n == IF bad = {} THEN Len(batch)
             ELSE (CHOOSE i \in bad : \A j \in bad : i <= j) - 1
    IN [i \in 1..n |-> EventObj(batch[i], processed_at)]

\* the for loop with its try/except: envelopes that raise are skipped
EventsToInsert(batch, processed_at) ==
    LET ok == SelectSeq(batch, LAMBDA d : ~BuildRaises(d))
    IN [i \in 1..Len(ok) |-> EventObj(ok[i], processed_at)]

\* -------------------------------------------------------------- models.py
\* variant: the table has no unique constraint
NoConstraint(rows) == TRUE

\* UniqueConstraint("client_id", "event_id"): the rows the commit would leave
UniqueOk(rows) ==
    \A i, j \in 1..Len(rows) :
        (rows[i].client_id = rows[j].client_id
         /\ rows[i].event_id = rows[j].event_id) => i = j

\* variant: the rows are committed one by one, a violating row is skipped
RECURSIVE CommitEachRow(_, _)
CommitEachRow(table, rows) ==
    IF rows = <<>> THEN table
    ELSE CommitEachRow(IF UniqueOk(Append(table, Head(rows)))
                       THEN Append(table, Head(rows)) ELSE table, Tail(rows))

\* variant: the transaction replaces the rows of the table
CommitReplaces(table, rows) == rows

\* db.add_all(events_to_insert); await db.commit(): all rows or, on error, none
Commit(table, rows) == IF UniqueOk(table \o rows) THEN table \o rows ELSE table

\* ------------------------------------------------------------ services.py
\* variant: the lower bound is exclusive
AnalyticsCountAfter(table, event_type, start, end) ==
    LET typed == SelectSeq(table, LAMBDA r : r.event_type = event_type)
        since == IF start # None
                 THEN SelectSeq(typed, LAMBDA r : r.event_timestamp.sec > start)
                 ELSE typed
        until == IF end # None
                 THEN SelectSeq(since, LAMBDA r : r.event_timestamp.sec <= end)
                 ELSE since
    IN Len(until)

\* analytics_count: select count() where event_type == ..., then
\* "if start:" adds event_timestamp >= start, "if end:" adds <= end
AnalyticsCount(table, event_type, start, end) ==
    LET typed == SelectSeq(table, LAMBDA r : r.event_type = event_type)
        since == IF start # None
                 THEN SelectSeq(typed, LAMBDA r : r.event_timestamp.sec >= start)
                 ELSE typed
        until == IF end # None
                 THEN SelectSeq(since, LAMBDA r : r.event_timestamp.sec <= end)
                 ELSE since
    IN Len(until)

\* variant: group_by(Event.client_id) only
GroupKeyClientOnly(r) == <<r.client_id, "click">>

\* .group_by(Event.client_id, Event.event_type)
GroupKey(r) == <<r.client_id, r.event_type>>

\* analytics_group: one row per group with count(); the order of the rows is
\* the database's choice
AnalyticsGroup(table) ==
    { [client_id |-> g[1], event_type |-> g[2],
       count |-> Cardinality({i \in DOMAIN table : GroupKey(table[i]) = g})] :
      g \in {GroupKey(table[i]) : i \in DOMAIN table} }

\* ---------------------------------------------------------------- main.py
\* the awaits of ingest_event in program order: check_rate_limit (line 33),
\* mark_idempotent (line 36), push_event (line 39)
\* variants: the marker is set before the rate check; the push is not awaited
MarkBeforeRate == <<"mark", "rate", "push">>
AckWithoutPush == <<"rate", "mark">>

IngestOrder == <<"rate", "mark", "push">>

StagePc(stage) ==
    CASE stage = "rate" -> "incr" [] stage = "mark" -> "setnx" [] stage = "push" -> "push"

\* variant: the early return on a duplicate is missing
NeverReturnsDuplicate(setnx) == FALSE

\* if not await mark_idempotent(idemp_key): return {"message": "Duplicate ..."}
ReturnsDuplicate(setnx) == ~setnx

\* ------------------------------------------------------------------ state
IdleHandler ==
    [pc |-> "idle", api_key |-> "", event |-> CHOOSE e \in EventCreate : TRUE,
     client_id |-> 0, count |-> 0, seen |-> "unread", pushed |-> FALSE,
     status |-> 0, msg |-> "", prior |-> FALSE, after429 |-> FALSE,
     admitAt |-> NoTTL, dispatch |-> "open"]

\* a worker process at the top of its loop; nothing printed yet
IdleWorker == [pc |-> "pop", batch |-> <<>>, last |-> <<>>, result |-> "none"]

\* the state of a deployment whose events table holds the rows of table
InitStore(table) ==
    /\ now = 0
    /\ rate = [k \in ApiKeys |-> NoEntry]
    /\ idemp = {}
    /\ queue = <<>>
    /\ events = table
    /\ handler = [s \in Slots |-> IdleHandler]
    /\ worker = [w \in Workers |-> IdleWorker]
    /\ reply = [op |-> "none"]
    /\ audit_logs = <<>>
    /\ started = 0
    /\ usedIds = 0
    /\ losses = 0
    /\ firsts = [p \in Pairs |-> 0]
    /\ accepted = [p \in Pairs |-> 0]
    /\ pushes = [p \in Pairs |-> 0]
    /\ admitLog = [k \in ApiKeys |-> [t \in Instants |-> [passed |-> 0, queued |-> 0]]]
    /\ born = [k \in ApiKeys |-> {}]
    /\ life = [k \in ApiKeys |-> [passed |-> 0, denied |-> 0]]
    /\ pushLog = <<>>
    /\ recv = [w \in Workers |-> <<>>]

\* start-up with the tables just created
Init == InitStore(<<>>)

Free(s) == handler[s].pc \in {"idle", "done"}
Pair(h) == <<h.client_id, h.event.event_id>>

\* the response of the request is produced: the handler is done
Respond(h, status, msg) == [h EXCEPT !.pc = "done", !.status = status, !.msg = msg]

\* the request has finished a stage without returning or raising
Proceed(h, stage) ==
    LET i == CHOOSE j \in DOMAIN IngestOrder : IngestOrder[j] = stage
    IN IF i = Len(IngestOrder)
       THEN Respond(h, 202, Accepted)
       ELSE [h EXCEPT !.pc = StagePc(IngestOrder[i + 1])]

\* history of "Event accepted" responses, kept by every step of slot s
CountAccepted(s) ==
    accepted' = [accepted EXCEPT ![Pair(handler[s])] =
        @ + (IF handler'[s].pc = "done" /\ handler'[s].msg = Accepted THEN 1 ELSE 0)]

\* A request arrives; Depends(get_current_client) runs before the body
StartRequest(s, api_key, ev) ==
    /\ Free(s)
    /\ \A t \in Slots : Free(t) => s <= t
    /\ IdIndex(ev.event_id) <= usedIds + 1
    /\ usedIds' = IF IdIndex(ev.event_id) > usedIds THEN usedIds + 1 ELSE usedIds
    /\ started' = started + 1
    /\ LET auth == GetCurrentClient(api_key)
           h == [IdleHandler EXCEPT !.api_key = api_key, !.event = ev,
                                    !.client_id = auth.client_id]
       IN handler' = [handler EXCEPT ![s] =
              IF auth.status = 401
              THEN Respond(h, 401, auth.detail)
              ELSE [h EXCEPT
                     !.pc = StagePc(IngestOrder[1]),
                     !.prior = accepted[<<auth.client_id, ev.event_id>>] > 0,
                     !.after429 =
                         \E t \in Slots :
                             /\ handler[t].pc = "done"
                             /\ handler[t].status = 429
                             /\ handler[t].api_key = api_key
                             /\ handler[t].event.event_id = ev.event_id]]
    /\ UNCHANGED <<now, rate, idemp, queue, events, worker, reply, losses,
                   firsts, accepted, pushes, admitLog, born, life, flow, audit_logs>>

\* what follows the comparison with RATE_LIMIT in check_rate_limit
AfterRateCheck(s, h) ==
    IF RateExceeded(h.count)
    THEN /\ handler' = [handler EXCEPT ![s] = Respond(h, 429, "Rate limit exceeded")]
         /\ life' = [life EXCEPT ![h.api_key].denied = @ + 1]
         /\ UNCHANGED admitLog
    ELSE /\ handler' = [handler EXCEPT ![s] = Proceed(
                [h EXCEPT !.admitAt = now], "rate")]
         /\ life' = [life EXCEPT ![h.api_key].passed = @ + 1]
         /\ admitLog' = [admitLog EXCEPT ![h.api_key][now].passed = @ + 1]

\* count = await r.incr(key)
RateIncr(s) ==
    /\ handler[s].pc = "incr"
    /\ LET key == RateKey(handler[s].api_key)
           entry == RedisIncr(rate[key])
           h == [handler[s] EXCEPT !.count = entry.count]
       IN /\ rate' = [rate EXCEPT ![key] = entry]
          /\ born' = IF rate[key].count = 0
                     THEN [born EXCEPT ![key] = @ \cup {now}] ELSE born
          /\ IF NeedsExpire(entry.count)
             THEN /\ handler' = [handler EXCEPT ![s] = [h EXCEPT !.pc = "expire"]]
                  /\ life' = IF rate[key].count = 0
                             THEN [life EXCEPT ![key] = [passed |-> 0, denied |-> 0]]
                             ELSE life
                  /\ UNCHANGED admitLog
             ELSE AfterRateCheck(s, h)
    /\ CountAccepted(s)
    /\ UNCHANGED <<now, idemp, queue, events, worker, reply, started, usedIds,
                   losses, firsts, pushes, flow, audit_logs>>

\* await r.expire(key, 60)
RateExpire(s) ==
    /\ handler[s].pc = "expire"
    /\ rate' = [rate EXCEPT ![RateKey(handler[s].api_key)] = RedisExpire(@, now)]
    /\ AfterRateCheck(s, handler[s])
    /\ CountAccepted(s)
    /\ UNCHANGED <<now, idemp, queue, events, worker, reply, started, usedIds,
                   losses, firsts, pushes, born, flow, audit_logs>>

\* if not await mark_idempotent(idemp_key): return duplicate
MarkIdempotent(s) ==
    /\ handler[s].pc = "setnx"
    /\ LET key == IdempKey(handler[s].client_id, handler[s].event.event_id)
           h == [handler[s] EXCEPT
                   !.seen = IF key \in idemp THEN "present" ELSE "absent"]
       IN /\ idemp' = SetnxStore(idemp, key)
          /\ handler' = [handler EXCEPT ![s] =
                IF ReturnsDuplicate(SetnxResult(idemp, key))
                THEN Respond(h, 202, Duplicate)
                ELSE Proceed(h, "mark")]
          /\ firsts' = [firsts EXCEPT ![Pair(h)] =
                @ + (IF SetnxResult(idemp, key) THEN 1 ELSE 0)]
    /\ CountAccepted(s)
    /\ UNCHANGED <<now, rate, queue, events, worker, reply, started, usedIds,
                   losses, pushes, admitLog, born, life, flow, audit_logs>>

\* await push_event({"client_id": client.id, **event.dict()})
PushEvent(s) ==
    /\ handler[s].pc = "push"
    /\ LET h == handler[s]
       IN /\ queue' = Lpush(queue, Serialize(h.client_id, h.event))
          /\ handler' = [handler EXCEPT ![s] =
                Proceed([h EXCEPT !.pushed = TRUE], "push")]
          /\ pushes' = [pushes EXCEPT ![Pair(h)] = @ + 1]
          /\ pushLog' = Append(pushLog, Serialize(h.client_id, h.event))
          /\ admitLog' = IF h.admitAt = NoTTL THEN admitLog
                         ELSE [admitLog EXCEPT ![h.api_key][h.admitAt].queued = @ + 1]
    /\ CountAccepted(s)
    /\ UNCHANGED <<now, rate, idemp, events, worker, reply, started, usedIds,
                   losses, firsts, born, life, recv, audit_logs>>

\* -------------------------------------------------------------- worker.py
\* one iteration of pop_batch's loop in worker w:
\* item = await r.rpop("event_queue"); if not item: break; json.loads(item)
WorkerRpop(w) ==
    /\ worker[w].pc = "pop"
    /\ IF queue = <<>>
       THEN /\ worker' = [worker EXCEPT
                   ![w].pc = IF NotBatch(worker[w].batch) THEN "sleep" ELSE "persist"]
            /\ UNCHANGED <<queue, recv>>
       ELSE LET data == Deserialize(RpopItem(queue))
                batch == Append(worker[w].batch, data)
            IN /\ queue' = RpopRest(queue)
               /\ worker' = [worker EXCEPT
                      ![w].pc = IF BatchFull(batch) THEN "persist" ELSE "pop",
                      ![w].batch = batch]
               /\ recv' = [recv EXCEPT ![w] = Append(@, data)]
    /\ UNCHANGED <<now, rate, idemp, events, handler, reply, hist, pushLog, audit_logs>>

\* if not batch: await asyncio.sleep(1); continue
WorkerSleep(w) ==
    /\ worker[w].pc = "sleep"
    /\ worker' = [worker EXCEPT ![w].pc = "pop"]
    /\ UNCHANGED <<now, rate, idemp, queue, events, handler, reply, hist, flow, audit_logs>>

\* build events_to_insert, then one transaction for the batch; up = the
\* database is reachable.  Any exception of the transaction is caught and
\* printed, the batch is dropped and the loop goes on.
WorkerPersist(w, up) ==
    /\ worker[w].pc = "persist"
    /\ LET rows == EventsToInsert(worker[w].batch, now)
           table == IF up THEN Commit(events, rows) ELSE events
       IN /\ events' = table
          /\ worker' = [worker EXCEPT ![w] =
                [pc |-> "pop", batch |-> <<>>, last |-> worker[w].batch,
                 result |-> IF up /\ table = events \o rows
                            THEN "inserted" ELSE "error"]]
    /\ UNCHANGED <<now, rate, idemp, queue, handler, reply, hist, flow, audit_logs>>

\* ---------------------------------------------------------------- main.py
\* GET /analytics/count
Count(event_type, start, end) ==
    /\ reply' = [op |-> "count", event_type |-> event_type,
                 start |-> start, end |-> end,
                 count |-> AnalyticsCount(events, event_type, start, end)]
    /\ UNCHANGED <<now, rate, idemp, queue, events, handler, worker, hist, flow, audit_logs>>

\* GET /analytics/group: the rows of analytics_group in the order the
\* database returns them
Group ==
    /\ LET rows == AnalyticsGroup(events)
           n == Cardinality(rows)
       IN \E groups \in [1..n -> rows] :
              /\ \A i, j \in 1..n : groups[i] = groups[j] => i = j
              /\ reply' = [op |-> "group", groups |-> groups]
    /\ UNCHANGED <<now, rate, idemp, queue, events, handler, worker, hist, flow, audit_logs>>

\* a Redis error inside pop_batch: the call is outside every try of worker(),
\* the exception leaves worker() and asyncio.run, the process ends and the
\* envelopes popped so far by this call are gone with it
WorkerRpopFails(w) ==
    /\ worker[w].pc = "pop"
    /\ worker' = [worker EXCEPT ![w].pc = "crashed", ![w].batch = <<>>]
    /\ UNCHANGED <<now, rate, idemp, queue, events, handler, reply, hist, flow,
                   audit_logs>>

\* ---------------------------------------------------------- middleware.py
\* response = await call_next(request): an HTTPException raised below (401,
\* 429) comes back as a response, any other exception of the handler is
\* raised again by call_next
CallNextRaises(status) == status = 500

\* AuditMiddleware.dispatch after call_next: the AuditLog row (the measured
\* duration is left out) is added and committed, unless call_next raised
AuditDispatch(s) ==
    /\ handler[s].pc = "done"
    /\ handler[s].dispatch = "open"
    /\ IF CallNextRaises(handler[s].status)
       THEN /\ handler' = [handler EXCEPT ![s].dispatch = "raised"]
            /\ UNCHANGED audit_logs
       ELSE /\ handler' = [handler EXCEPT ![s].dispatch = "logged"]
            /\ audit_logs' = Append(audit_logs,
                   [endpoint |-> "/events", method |-> "POST",
                    status_code |-> handler[s].status])
    /\ UNCHANGED <<now, rate, idemp, queue, events, worker, reply, hist, flow>>

\* ------------------------------------------------------------ environment
\* Redis is unavailable for the command the request is about to send (incr,
\* expire, setnx or lpush): the command has no effect, its exception leaves
\* ingest_event and the request ends as a 500
StoreFails(s) ==
    /\ handler[s].pc \in {"incr", "expire", "setnx", "push"}
    /\ handler' = [handler EXCEPT
           ![s] = Respond(handler[s], 500, "Internal Server Error")]
    /\ UNCHANGED <<now, rate, idemp, queue, events, worker, reply, hist, flow,
                   audit_logs>>

\* time passes; Redis removes the rate counters whose deadline has passed
Tick ==
    /\ now < MaxTicks * TickSeconds
    /\ now' = now + TickSeconds
    /\ rate' = [k \in ApiKeys |->
                  IF Expired(rate[k], now') THEN NoEntry ELSE rate[k]]
    /\ UNCHANGED <<idemp, queue, events, handler, worker, reply, hist, flow, audit_logs>>

\* envelopes of another writer of event_queue: without the timestamp field,
\* with an unparsable timestamp, and a well-formed one
ForeignEnvelopes ==
    { [client_id |-> 3, event_id |-> "e1", event_type |-> "click",
       payload |-> JsonDumps([a |-> 1])],
      [client_id |-> 3, event_id |-> "e1", event_type |-> "click",
       timestamp |-> <<>>, payload |-> JsonDumps([a |-> 1])],
      [client_id |-> 1, event_id |-> "e1", event_type |-> "click",
       timestamp |-> <<0, "+00:00">>, payload |-> JsonDumps([a |-> 1])] }

\* another writer pushes an envelope
ForeignPush(item) ==
    /\ Cardinality({i \in DOMAIN pushLog : pushLog[i] \in ForeignEnvelopes})
           < MaxForeign
    /\ queue' = Lpush(queue, item)
    /\ pushLog' = Append(pushLog, item)
    /\ UNCHANGED <<now, rate, idemp, events, handler, worker, reply, hist, recv, audit_logs>>

\* the key-value store loses its idempotency markers (eviction, restart
\* without persistence of the marker keys)
LoseMarkers ==
    /\ losses < MaxLoss
    /\ idemp # {}
    /\ idemp' = {}
    /\ losses' = losses + 1
    /\ UNCHANGED <<now, rate, queue, events, handler, worker, reply, started,
                   usedIds, firsts, accepted, pushes, admitLog, born, life, flow, audit_logs>>

\* Spec submits under one active client's key, with aware and naive timestamps
\* of one instant, one event type and one payload
PipelineKeys == {"k1"}
PipelineEvents ==
    {ev \in EventCreate :
        ev.event_type = "click" /\ ev.payload = [a |-> 1] /\ ev.timestamp.sec = 0}

\* the pipeline: ingestion, the worker, loss of markers; the clock stands still
Next ==
    \/ \E s \in Slots, k \in PipelineKeys, ev \in PipelineEvents :
           started < MaxReqs /\ StartRequest(s, k, ev)
    \/ \E s \in Slots : RateIncr(s)
    \/ \E s \in Slots : RateExpire(s)
    \/ \E s \in Slots : MarkIdempotent(s)
    \/ \E s \in Slots : PushEvent(s)
    \/ WorkerRpop(1)
    \/ WorkerSleep(1)
    \/ WorkerPersist(1, TRUE)
    \/ LoseMarkers

Spec == Init /\ [][Next]_vars

\* the request path under one active client's key, with the clock and key expiry
AwareEvents == {ev \in PipelineEvents : ev.timestamp.aware}
RateKeys == {"k1"}

NextRate ==
    \/ \E s \in Slots, k \in RateKeys, ev \in AwareEvents :
           started < MaxRateReqs /\ StartRequest(s, k, ev)
    \/ \E s \in Slots : RateIncr(s)
    \/ \E s \in Slots : RateExpire(s)
    \/ \E s \in Slots : MarkIdempotent(s)
    \/ \E s \in Slots : PushEvent(s)
    \/ Tick

SpecRate == Init /\ [][NextRate]_vars

\* the request path under every kind of credential: missing, unknown, inactive
\* and active keys; the clock stands still
AuthKeys == {"", "k1", "k3", "kx"}

NextAuth ==
    \/ \E s \in Slots, k \in AuthKeys, ev \in AwareEvents :
           started < MaxReqs /\ StartRequest(s, k, ev)
    \/ \E s \in Slots : RateIncr(s)
    \/ \E s \in Slots : RateExpire(s)
    \/ \E s \in Slots : MarkIdempotent(s)
    \/ \E s \in Slots : PushEvent(s)

SpecAuth == Init /\ [][NextAuth]_vars

\* the queue between one producer and two workers: requests are handled one
\* at a time, under two active clients' keys so that more than BATCH_SIZE
\* envelopes get queued; the clock stands still
QueueKeys == {"k1", "k2"}

NextQueue ==
    \/ \E k \in QueueKeys, ev \in AwareEvents :
           started < MaxReqs /\ StartRequest(1, k, ev)
    \/ RateIncr(1)
    \/ RateExpire(1)
    \/ MarkIdempotent(1)
    \/ PushEvent(1)
    \/ \E w \in Workers : WorkerRpop(w)
    \/ \E w \in Workers : WorkerSleep(w)
    \/ \E w \in Workers : WorkerPersist(w, TRUE)

SpecQueue == Init /\ [][NextQueue]_vars

\* one worker and its batches: requests handled one at a time under one
\* client's key, two event types with their payloads, aware and naive
\* timestamps, an envelope of another writer, and a database that may be
\* unreachable when the batch is committed; the clock stands still
BatchEvents ==
    {ev \in EventCreate :
        /\ ev.timestamp.sec = 0
        /\ \/ ev.event_type = "click" /\ ev.payload = [a |-> 1]
           \/ /\ ev.event_type = "view" /\ ev.payload = [a |-> 2, b |-> 1]
              /\ ev.timestamp.aware}

NextBatch ==
    \/ \E k \in PipelineKeys, ev \in BatchEvents :
           started < MaxBatchReqs /\ StartRequest(1, k, ev)
    \/ RateIncr(1)
    \/ RateExpire(1)
    \/ MarkIdempotent(1)
    \/ PushEvent(1)
    \/ \E item \in ForeignEnvelopes : ForeignPush(item)
    \/ WorkerRpop(1)
    \/ WorkerSleep(1)
    \/ \E up \in BOOLEAN : WorkerPersist(1, up)

SpecBatch == Init /\ [][NextBatch]_vars

\* end to end with a database that is always reachable: one client's requests,
\* one at a time, and one worker.  A handler that has started runs to its
\* response and the worker's loop never stops: weak fairness on their steps.
NextLive ==
    \/ \E k \in PipelineKeys, ev \in PipelineEvents :
           started < MaxReqs /\ StartRequest(1, k, ev)
    \/ RateIncr(1)
    \/ RateExpire(1)
    \/ MarkIdempotent(1)
    \/ PushEvent(1)
    \/ WorkerRpop(1)
    \/ WorkerSleep(1)
    \/ WorkerPersist(1, TRUE)

Fairness ==
    /\ WF_vars(RateIncr(1))
    /\ WF_vars(RateExpire(1))
    /\ WF_vars(MarkIdempotent(1))
    /\ WF_vars(PushEvent(1))
    /\ WF_vars(WorkerRpop(1))
    /\ WF_vars(WorkerSleep(1))
    /\ WF_vars(WorkerPersist(1, TRUE))

SpecLive == Init /\ [][NextLive]_vars /\ Fairness

\* the core as a whole: one client's requests with event timestamps at and
\* after the start of the clock, the worker, the clock, and the two analytics
\* queries
CoreEvents ==
    {ev \in EventCreate :
        ev.event_type = "click" /\ ev.payload = [a |-> 1] /\ ev.timestamp.aware}

NextCore ==
    \/ \E k \in PipelineKeys, ev \in CoreEvents :
           started < MaxCoreReqs /\ StartRequest(1, k, ev)
    \/ RateIncr(1)
    \/ RateExpire(1)
    \/ MarkIdempotent(1)
    \/ PushEvent(1)
    \/ WorkerRpop(1)
    \/ WorkerSleep(1)
    \/ WorkerPersist(1, TRUE)
    \/ Tick
    \/ Count("click", None, None)
    \/ Group

SpecCore == Init /\ [][NextCore]_vars

\* two active clients whose requests are handled one at a time, and the
\* worker; the clock stands still
NextClients ==
    \/ \E k \in QueueKeys, ev \in AwareEvents :
           started < MaxClientReqs /\ StartRequest(1, k, ev)
    \/ RateIncr(1)
    \/ RateExpire(1)
    \/ MarkIdempotent(1)
    \/ PushEvent(1)
    \/ WorkerRpop(1)
    \/ WorkerSleep(1)
    \/ WorkerPersist(1, TRUE)

SpecClients == Init /\ [][NextClients]_vars

\* one client's requests whose JSON body carries, next to the four fields of
\* EventCreate, a client_id field naming another client; the worker; the
\* clock stands still
ForgedBodies ==
    {[k \in {"client_id"} \cup EventFields |->
         IF k = "client_id" THEN c ELSE ev[k]] :
     c \in ClientIds \ {1}, ev \in CoreEvents}

NextBody ==
    \/ \E k \in PipelineKeys, body \in ForgedBodies :
           started < MaxReqs /\ StartRequest(1, k, ParseBody(body))
    \/ RateIncr(1)
    \/ RateExpire(1)
    \/ MarkIdempotent(1)
    \/ PushEvent(1)
    \/ WorkerRpop(1)
    \/ WorkerSleep(1)
    \/ WorkerPersist(1, TRUE)

SpecBody == Init /\ [][NextBody]_vars

\* delivery from the queue to the table: one client's requests with aware and
\* naive timestamps, two workers that can end inside pop_batch, a database
\* that can be down; the clock stands still
NextDelivery ==
    \/ \E k \in PipelineKeys, ev \in BatchEvents :
           started < MaxBatchReqs /\ StartRequest(1, k, ev)
    \/ RateIncr(1)
    \/ RateExpire(1)
    \/ MarkIdempotent(1)
    \/ PushEvent(1)
    \/ \E w \in Workers : WorkerRpop(w)
    \/ \E w \in Workers : WorkerSleep(w)
    \/ \E w \in Workers, up \in BOOLEAN : WorkerPersist(w, up)
    \/ \E w \in Workers : WorkerRpopFails(w)

SpecDelivery == Init /\ [][NextDelivery]_vars

\* requests and the worker with a key-value store that can be unavailable for
\* any command, and the audit middleware around every request: requests are
\* handled one at a time, under an active and an unknown key; the clock
\* stands still
FailKeys == {"k1", "kx"}

\* AuditMiddleware.dispatch of the last request in slot s has ended
Closed(s) == handler[s].pc = "done" => handler[s].dispatch # "open"

NextFail ==
    \/ \E k \in FailKeys, ev \in AwareEvents :
           started < MaxReqs /\ Closed(1) /\ StartRequest(1, k, ev)
    \/ RateIncr(1)
    \/ RateExpire(1)
    \/ MarkIdempotent(1)
    \/ PushEvent(1)
    \/ StoreFails(1)
    \/ AuditDispatch(1)
    \/ WorkerRpop(1)
    \/ WorkerSleep(1)
    \/ WorkerPersist(1, TRUE)
    \/ WorkerRpopFails(1)

SpecFail == Init /\ [][NextFail]_vars

\* the analytics queries over an events table the worker has filled: row i
\* is built by the worker from an envelope of either client, with the i-th
\* event id, either event type and either instant
RowChoices(i) ==
    { EventObj(Deserialize(Serialize(c, ev)), 0) :
        c \in {1, 2},
        ev \in {e \in EventCreate : /\ e.event_id = EventIdSeq[i]
                                   /\ e.timestamp.aware
                                   /\ e.payload = [a |-> 1]} }

RECURSIVE TablesOf(_)
TablesOf(n) ==
    IF n = 0 THEN {<<>>}
    ELSE {Append(t, r) : t \in TablesOf(n - 1), r \in RowChoices(n)}

Tables == UNION {TablesOf(n) : n \in 0..MaxRows}

\* values of the query parameters start and end
QueryInstants == {None, 0, 30}

InitAnalytics == \E table \in Tables : InitStore(table)

NextAnalytics ==
    \/ \E event_type \in EventTypes, start \in QueryInstants, end \in QueryInstants :
           Count(event_type, start, end)
    \/ Group

SpecAnalytics == InitAnalytics /\ [][NextAnalytics]_vars


\* ================================================================ claims
RowsOf(p) ==
    {i \in DOMAIN events : events[i].client_id = p[1] /\ events[i].event_id = p[2]}

\* nothing is left in the queue or in the worker's hands
Drained == queue = <<>> /\ \A w \in Workers : worker[w].batch = <<>>

\* slot s produces its response in this step
Answers(s) == handler[s].pc # "done" /\ handler'[s].pc = "done"

ValidCredential(k) == \E c \in ClientTable : c.api_key = k /\ c.is_active

\* C1: a pair submitted a second time after it was answered "Event accepted"
\* (both submissions reach the guard, no marker is lost) is answered
\* "Duplicate event ignored", and once the worker has drained the queue exactly
\* one record with that pair is persisted.
C1_TwiceSubmittedOncePersisted ==
    \A s \in Slots :
        (/\ handler[s].pc = "done"
         /\ handler[s].prior
         /\ handler[s].status = 202
         /\ losses = 0
         /\ Drained)
        => /\ handler[s].msg = Duplicate
           /\ Cardinality(RowsOf(Pair(handler[s]))) = 1

\* C2: a call of mark_idempotent returns true iff the marker does not exist,
\* and the marker exists after it; so per key at most one call returns true
\* between two losses of the marker.
C2_MarkIdempotentOnce ==
    /\ [](\A p \in Pairs : firsts[p] <= 1 + losses)
    /\ [][\A s \in Slots :
            (handler[s].pc = "setnx" /\ handler'[s] # handler[s]) =>
                LET p == Pair(handler[s])
                    key == IdempKey(p[1], p[2])
                IN /\ key \in idemp => firsts'[p] = firsts[p]
                   /\ key \notin idemp => firsts'[p] = firsts[p] + 1
                   /\ key \in idemp']_vars

C2_Witness ==
    \E s \in Slots :
        /\ handler[s].pc = "done"
        /\ handler[s].seen = "present"
        /\ firsts[Pair(handler[s])] = 1

\* C3: while no marker is lost, of the requests for one pair that reach the
\* guard, in any interleaving, exactly one finds the marker absent, pushes one
\* envelope and answers "Event accepted"; every other one answers "Duplicate
\* event ignored" and pushes nothing.
C3_OneWinner ==
    losses = 0 =>
        \A p \in Pairs :
            /\ pushes[p] <= 1
            /\ accepted[p] <= 1
            /\ Cardinality({s \in Slots :
                   /\ Pair(handler[s]) = p
                   /\ handler[s].seen # "unread"
                   /\ handler[s].pc = "push" \/ handler[s].pushed}) <= 1
            /\ \A s \in Slots :
                   (Pair(handler[s]) = p /\ handler[s].seen # "unread") =>
                       /\ firsts[p] = 1
                       /\ handler[s].pc = "done" =>
                           \/ handler[s].msg = Accepted /\ handler[s].pushed
                           \/ handler[s].msg = Duplicate /\ ~handler[s].pushed

\* the loser has answered before the winner has pushed
C3_Witness ==
    \E s, t \in Slots :
        /\ losses = 0
        /\ Pair(handler[s]) = Pair(handler[t])
        /\ handler[s].pc = "push"
        /\ handler[t].pc = "done"
        /\ handler[t].msg = Duplicate

\* C4: no two persisted records have the same (client_id, event_id), also
\* after the markers were lost and a persisted event was accepted again.
C4_UniquePair ==
    \A i, j \in DOMAIN events :
        (events[i].client_id = events[j].client_id
         /\ events[i].event_id = events[j].event_id) => i = j

\* after a loss the pair was pushed a second time and the worker is through
C4_Witness ==
    \E p \in Pairs :
        /\ losses >= 1
        /\ pushes[p] = 2
        /\ Drained
        /\ Cardinality(RowsOf(p)) = 1

\* the instants of the 60 seconds that start at t
WindowAt(t) == {u \in Instants : t <= u /\ u < t + WINDOW}

RECURSIVE SumPassed(_, _)
SumPassed(k, S) ==
    IF S = {} THEN 0
    ELSE LET u == CHOOSE x \in S : TRUE
         IN admitLog[k][u].passed + SumPassed(k, S \ {u})

RECURSIVE SumQueued(_, _)
SumQueued(k, S) ==
    IF S = {} THEN 0
    ELSE LET u == CHOOSE x \in S : TRUE
         IN admitLog[k][u].queued + SumQueued(k, S \ {u})

\* C5 as stated: in every interval of 60 seconds, whatever its start, at most
\* RATE_LIMIT requests under one credential pass check_rate_limit and get queued.
C5_AnySixtySeconds ==
    \A k \in ApiKeys, t \in Instants : SumQueued(k, WindowAt(t)) <= RATE_LIMIT

\* C5 amended: in the 60 seconds that start at the creation of a rate counter
\* at most RATE_LIMIT requests under that credential pass check_rate_limit.
C5_WindowFromCreation ==
    \A k \in ApiKeys : \A t \in born[k] : SumPassed(k, WindowAt(t)) <= RATE_LIMIT

\* a counter's first 60 seconds are used up, and 60 seconds that start
\* elsewhere hold more
C5_Witness ==
    \E k \in ApiKeys :
        /\ \E t \in born[k] : SumPassed(k, WindowAt(t)) = RATE_LIMIT
        /\ \E u \in Instants \ born[k] : SumPassed(k, WindowAt(u)) > RATE_LIMIT

\* C6: while a rate counter exists, of the k requests that incremented it
\* exactly min(k, RATE_LIMIT) pass and the others are denied with 429; a
\* request passes iff its post-increment value is at most RATE_LIMIT.
C6_MinOfKAndLimit ==
    /\ \A k \in ApiKeys :
          rate[k].count > 0 =>
              LET c == rate[k].count
                  m == IF c < RATE_LIMIT THEN c ELSE RATE_LIMIT
                  pending == {s \in Slots : handler[s].pc = "expire"
                                            /\ handler[s].api_key = k}
                  toPass == {s \in pending : handler[s].count <= RATE_LIMIT}
              IN /\ life[k].passed + Cardinality(toPass) = m
                 /\ life[k].denied + Cardinality(pending \ toPass) = c - m
    /\ \A s \in Slots :
          (handler[s].count > 0 /\ handler[s].pc \notin {"incr", "expire"}) =>
              ((handler[s].pc = "done" /\ handler[s].status = 429)
               <=> handler[s].count > RATE_LIMIT)

\* request N is still in flight when request N+1 is denied
C6_Witness ==
    \E s, t \in Slots :
        /\ handler[s].api_key = handler[t].api_key
        /\ rate[handler[s].api_key].count = RATE_LIMIT + 1
        /\ handler[s].count = RATE_LIMIT
        /\ handler[s].pc \in {"setnx", "push"}
        /\ handler[t].count = RATE_LIMIT + 1
        /\ handler[t].pc = "done"
        /\ handler[t].status = 429
        /\ life[handler[s].api_key] = [passed |-> RATE_LIMIT, denied |-> 1]

\* C7: the response of POST /events is decided by the credential, then the
\* post-increment counter, then the marker, in this order, and a check after
\* the deciding one is not made.
C7_OutcomeInOrder ==
    \A s \in Slots :
        LET h == handler[s]
        IN /\ h.pc \notin {"idle", "done"} => ValidCredential(h.api_key)
           /\ h.pc = "done" =>
                IF ~ValidCredential(h.api_key)
                THEN h.status = 401 /\ h.count = 0 /\ h.seen = "unread" /\ ~h.pushed
                ELSE IF h.count > RATE_LIMIT
                THEN h.status = 429 /\ h.seen = "unread" /\ ~h.pushed
                ELSE IF h.seen = "present"
                THEN /\ h.status = 202 /\ h.msg = Duplicate
                     /\ h.count >= 1 /\ ~h.pushed
                ELSE /\ h.status = 202 /\ h.msg = Accepted
                     /\ h.count >= 1 /\ h.seen = "absent" /\ h.pushed

C7_Witness ==
    \E s, t \in Slots :
        /\ handler[s].pc = "done" /\ handler[s].status = 429
        /\ handler[t].pc = "done" /\ handler[t].msg = Duplicate

\* C8: a request answered 429 has not called mark_idempotent or push_event,
\* and the step that answers 429 leaves the markers and the queue unchanged.
C8_DeniedWritesNothing ==
    /\ [](\A s \in Slots :
            (handler[s].pc = "done" /\ handler[s].status = 429) =>
                handler[s].seen = "unread" /\ ~handler[s].pushed)
    /\ [][\A s \in Slots :
            (Answers(s) /\ handler'[s].status = 429) =>
                idemp' = idemp /\ queue' = queue]_vars

\* the event of a request answered 429 is submitted again and accepted
C8_Witness ==
    \E s \in Slots :
        /\ handler[s].pc = "done"
        /\ handler[s].after429
        /\ handler[s].msg = Accepted

\* C9: a request that finds its marker present answers "Duplicate event
\* ignored" and pushes nothing: the step that answers it leaves the queue as it was.
C9_DuplicateNotQueued ==
    /\ [](\A s \in Slots :
            (handler[s].pc = "done" /\ handler[s].seen = "present") =>
                handler[s].msg = Duplicate /\ ~handler[s].pushed)
    /\ [][\A s \in Slots :
            (handler[s].pc = "setnx" /\ handler'[s].seen = "present") =>
                Answers(s) /\ queue' = queue]_vars

C9_Witness ==
    \E s \in Slots :
        /\ handler[s].pc = "done"
        /\ handler[s].msg = Duplicate
        /\ queue # <<>>
        /\ pushes[Pair(handler[s])] = 1

\* C10: when "Event accepted" is produced the request's envelope has been
\* pushed: it is at the left end of event_queue in the state of the response.
C10_PushedBeforeAck ==
    /\ [](\A s \in Slots :
            (handler[s].pc = "done" /\ handler[s].msg = Accepted) =>
                handler[s].pushed)
    /\ [][\A s \in Slots :
            (Answers(s) /\ handler'[s].msg = Accepted) =>
                /\ Len(queue') = Len(queue) + 1
                /\ queue'[1] = Serialize(handler[s].client_id, handler[s].event)]_vars

\* the envelope of an accepted request is already in the worker's batch
C10_Witness ==
    \E s \in Slots :
        /\ handler[s].pc = "done"
        /\ handler[s].msg = Accepted
        /\ \E i \in DOMAIN worker[1].batch :
               worker[1].batch[i] =
                   Deserialize(Serialize(handler[s].client_id, handler[s].event))
        /\ queue = <<>>

\* the envelopes json.loads returns for the first n items pushed
Decoded(n) == [i \in 1..n |-> Deserialize(pushLog[i])]

\* C11: a batch never holds more than BATCH_SIZE envelopes; the rpop of
\* pop_batch never waits, and the one that finds the queue empty ends the call
\* with the envelopes popped so far (possibly none) and leaves the queue empty.
C11_AtMostBatchSize ==
    /\ [](\A w \in Workers :
            /\ Len(worker[w].batch) <= BATCH_SIZE
            /\ worker[w].pc = "pop" =>
                  Len(worker[w].batch) < BATCH_SIZE /\ ENABLED WorkerRpop(w))
    /\ [][\A w \in Workers :
            (worker[w].pc = "pop" /\ queue = <<>> /\ worker'[w] # worker[w]) =>
                /\ worker'[w].pc \in {"sleep", "persist"}
                /\ worker'[w].batch = worker[w].batch
                /\ queue' = <<>>]_vars

\* one call returned BATCH_SIZE envelopes, the next one the single envelope
\* that was left
C11_Witness ==
    \E w, v \in Workers :
        /\ worker[w].pc = "persist" /\ Len(worker[w].batch) = BATCH_SIZE
        /\ worker[v].pc = "persist" /\ Len(worker[v].batch) = 1
        /\ queue = <<>>

\* C12: a worker that is the only one to pop receives the envelopes in the
\* order they were pushed, within a batch and from one batch to the next:
\* what it has received is always the first envelopes pushed, in push order.
C12_Fifo ==
    \A w \in Workers :
        (\A v \in Workers \ {w} : recv[v] = <<>>) =>
            /\ Len(recv[w]) <= Len(pushLog)
            /\ recv[w] = Decoded(Len(recv[w]))

\* a full batch was persisted and the third envelope pushed is in the next batch
C12_Witness ==
    /\ recv[2] = <<>>
    /\ Len(recv[1]) = BATCH_SIZE + 1
    /\ Len(events) = BATCH_SIZE
    /\ Len(worker[1].batch) = 1

\* C13: with the rpop steps of the workers interleaved in any order, no
\* envelope is returned twice, to two workers or to one, and every envelope
\* returned was pushed: the batches are pairwise disjoint.
C13_DisjointBatches ==
    /\ \A w, v \in Workers :
          \A i \in DOMAIN recv[w], j \in DOMAIN recv[v] :
              recv[w][i] = recv[v][j] => (w = v /\ i = j)
    /\ \A w \in Workers : \A i \in DOMAIN recv[w] :
          \E n \in DOMAIN pushLog : recv[w][i] = Deserialize(pushLog[n])
    /\ Len(recv[1]) + Len(recv[2]) + Len(queue) = Len(pushLog)

\* worker 2 popped between the two rpop of one pop_batch call of worker 1
C13_Witness ==
    /\ Len(pushLog) = 3
    /\ recv[1] = <<Deserialize(pushLog[1]), Deserialize(pushLog[3])>>
    /\ recv[2] = <<Deserialize(pushLog[2])>>
    /\ worker[1].pc = "persist"
    /\ worker[2].pc = "pop"

\* an envelope as the data model has it: every field, a timestamp with offset
WellFormed(data) == Fields \subseteq DOMAIN data /\ Len(data.timestamp) = 2

\* the envelopes of a batch that are not malformed, in the order of the batch
Survivors(batch) == SelectSeq(batch, WellFormed)

\* record r carries the identity, the type and the payload of envelope data
FromEnvelope(r, data) ==
    /\ r.client_id = data.client_id
    /\ r.event_id = data.event_id
    /\ r.event_type = data.event_type
    /\ r.payload = data.payload

\* worker w ends the iteration of its loop that handles a batch
EndsBatch(w) == worker[w].pc = "persist" /\ worker'[w] # worker[w]

\* C14: the queue always holds exactly the items pushed and not yet popped, in
\* push order, so a popped envelope is never in it again; a step of a worker
\* leaves the queue as it is or removes its right end, whether the batch is
\* persisted, an envelope fails validation or the transaction fails.
C14_NeverRequeued ==
    /\ [](/\ Len(recv[1]) + Len(recv[2]) + Len(queue) = Len(pushLog)
          /\ \A i \in DOMAIN queue : queue[i] = pushLog[Len(pushLog) + 1 - i])
    /\ [][worker' # worker =>
            \/ queue' = queue
            \/ queue # <<>> /\ queue' = SubSeq(queue, 1, Len(queue) - 1)]_vars

\* after a persisted batch, a batch with a malformed envelope and a
\* well-formed one met a failing transaction, and the queue is empty
C14_Witness ==
    /\ worker[1].result = "error"
    /\ worker[1].pc = "pop"
    /\ \E i, j \in DOMAIN worker[1].last :
           ~WellFormed(worker[1].last[i]) /\ WellFormed(worker[1].last[j])
    /\ Len(events) >= 1
    /\ Len(recv[1]) = Len(pushLog)
    /\ queue = <<>>

\* C15: the iteration that handles a batch always ends with the worker back
\* at pop_batch, and when its transaction commits the rows it adds are those
\* of the well-formed envelopes of the batch, all of them and in their order,
\* and none of a malformed envelope.
C15_PoisonSkipped ==
    [][\A w \in Workers :
          EndsBatch(w) =>
              LET ok == Survivors(worker[w].batch)
              IN /\ worker'[w].pc = "pop"
                 /\ worker'[w].result \in {"inserted", "error"}
                 /\ worker'[w].result = "inserted" =>
                       /\ Len(events') = Len(events) + Len(ok)
                       /\ \A i \in DOMAIN ok :
                             FromEnvelope(events'[Len(events) + i], ok[i])]_vars

\* a malformed envelope came first in a batch, the well-formed one after it
\* is persisted
C15_Witness ==
    /\ worker[1].result = "inserted"
    /\ Len(worker[1].last) = 2
    /\ ~WellFormed(worker[1].last[1])
    /\ WellFormed(worker[1].last[2])
    /\ events # <<>>
    /\ FromEnvelope(events[Len(events)], worker[1].last[2])

\* C16: the transaction of a batch adds the rows of all its surviving
\* envelopes or, when it fails, no row at all; in both cases the batch is
\* dropped and the queue is left as it is.
C16_AllOrNothing ==
    [][\A w \in Workers :
          EndsBatch(w) =>
              /\ queue' = queue
              /\ worker'[w].batch = <<>>
              /\ \/ /\ worker'[w].result = "inserted"
                    /\ Len(events') = Len(events) + Len(Survivors(worker[w].batch))
                    /\ SubSeq(events', 1, Len(events)) = events
                 \/ /\ worker'[w].result = "error"
                    /\ events' = events]_vars

\* a failed transaction: one envelope of the batch repeats a persisted pair,
\* the other one is well-formed, has no record and is not in the queue
C16_Witness ==
    /\ worker[1].result = "error"
    /\ Drained
    /\ \E i, j \in DOMAIN worker[1].last :
           /\ WellFormed(worker[1].last[i])
           /\ WellFormed(worker[1].last[j])
           /\ RowsOf(<<worker[1].last[i].client_id, worker[1].last[i].event_id>>) # {}
           /\ RowsOf(<<worker[1].last[j].client_id, worker[1].last[j].event_id>>) = {}

\* C17: every record carries the client_id, event_id, event_type and payload
\* of an event whose envelope was pushed, and after a committed transaction
\* every well-formed envelope of the batch has such a record.
C17_RoundTrip ==
    /\ \A i \in DOMAIN events :
          \E ev \in EventCreate :
              /\ events[i].event_id = ev.event_id
              /\ events[i].event_type = ev.event_type
              /\ events[i].payload = ev.payload
              /\ \E n \in DOMAIN pushLog :
                    pushLog[n] = Serialize(events[i].client_id, ev)
    /\ \A w \in Workers :
          worker[w].result = "inserted" =>
              \A j \in DOMAIN worker[w].last :
                  WellFormed(worker[w].last[j]) =>
                      \E i \in DOMAIN events :
                          FromEnvelope(events[i], worker[w].last[j])

\* an event with the two-key payload was submitted, drained and persisted
C17_Witness ==
    /\ Drained
    /\ \E s \in Slots, i \in DOMAIN events :
           /\ handler[s].msg = Accepted
           /\ handler[s].event.payload = [a |-> 2, b |-> 1]
           /\ events[i].event_id = handler[s].event.event_id
           /\ events[i].client_id = handler[s].client_id
           /\ events[i].event_type = "view"
           /\ events[i].payload = handler[s].event.payload

\* the pairs that were answered "Event accepted"
AcceptedPairs == {p \in Pairs : accepted[p] > 0}

\* C18: an event answered "Event accepted" eventually has exactly one record,
\* with status "processed", and in the end count("click") is the number of
\* accepted events; an identical second submission is answered "Duplicate
\* event ignored" and the step that answers it adds no record.
C18_EndToEnd ==
    /\ \A p \in Pairs :
          (accepted[p] > 0) ~>
              /\ Cardinality(RowsOf(p)) = 1
              /\ \A i \in RowsOf(p) : events[i].status = "processed"
    /\ <>[](AnalyticsCount(events, "click", None, None)
               = Cardinality(AcceptedPairs))
    /\ [](\A s \in Slots :
            (handler[s].pc = "done" /\ handler[s].prior /\ handler[s].status = 202)
                => handler[s].msg = Duplicate)
    /\ [][\A s \in Slots :
            (Answers(s) /\ handler'[s].msg = Duplicate) => events' = events]_vars

\* the records of type t whose event_timestamp lies within the given bounds
Matching(t, start, end) ==
    {i \in DOMAIN events :
        /\ events[i].event_type = t
        /\ start # None => events[i].event_timestamp.sec >= start
        /\ end # None => events[i].event_timestamp.sec <= end}

\* C19: the count returned is the number of records of the given type with
\* event_timestamp >= start when start is given and <= end when end is given,
\* bounds included; without bounds it is the number of records of that type;
\* the query changes no record.
C19_CountInRange ==
    /\ [](reply.op = "count" =>
            /\ reply.count =
                   Cardinality(Matching(reply.event_type, reply.start, reply.end))
            /\ (reply.start = None /\ reply.end = None) =>
                   reply.count = Cardinality({i \in DOMAIN events :
                                      events[i].event_type = reply.event_type}))
    /\ [][reply' # reply => events' = events]_vars

\* start = end = the instant of a record: it is counted, an earlier record of
\* the same type is not
C19_Witness ==
    /\ reply.op = "count"
    /\ reply.start = 30
    /\ reply.end = 30
    /\ reply.count = 1
    /\ Cardinality(Matching(reply.event_type, None, None)) = 2

\* the records of one (client_id, event_type) pair
RecordsOf(c, t) ==
    {i \in DOMAIN events : events[i].client_id = c /\ events[i].event_type = t}

RECURSIVE SumCounts(_)
SumCounts(groups) ==
    IF groups = <<>> THEN 0 ELSE Head(groups).count + SumCounts(Tail(groups))

\* C20: the entries returned are one per (client_id, event_type) pair of the
\* records, each with the number of records of its pair: every count is at
\* least 1, no pair is entered twice, the counts add up to the number of records.
C20_GroupPartition ==
    reply.op = "group" =>
        LET g == reply.groups
        IN /\ \A i \in DOMAIN g :
                 /\ g[i].count >= 1
                 /\ g[i].count = Cardinality(RecordsOf(g[i].client_id, g[i].event_type))
           /\ \A i, j \in DOMAIN g :
                 (g[i].client_id = g[j].client_id
                  /\ g[i].event_type = g[j].event_type) => i = j
           /\ \A r \in DOMAIN events : \E i \in DOMAIN g :
                 /\ g[i].client_id = events[r].client_id
                 /\ g[i].event_type = events[r].event_type
           /\ SumCounts(g) = Len(events)

\* three records in two groups: one client with two types, one of them twice
C20_Witness ==
    /\ reply.op = "group"
    /\ Len(events) = 3
    /\ Len(reply.groups) = 2
    /\ reply.groups[1].client_id = reply.groups[2].client_id
    /\ reply.groups[1].count = 2

\* C21: a request answered "Duplicate event ignored" is about an event whose
\* envelope was pushed, also when earlier requests for it failed because the
\* key-value store was unavailable.
C21_RetryGetsQueued ==
    \A s \in Slots :
        (handler[s].pc = "done" /\ handler[s].msg = Duplicate)
            => pushes[Pair(handler[s])] >= 1

\* the request of slot s is between its arrival and the end of its dispatch
InFlight(s) ==
    /\ handler[s].pc # "idle"
    /\ ~(handler[s].pc = "done" /\ handler[s].dispatch # "open")

\* the number of requests whose dispatch has ended
Ended == started - Cardinality({s \in Slots : InFlight(s)})

\* C22: every request whose dispatch has ended has exactly one audit record.
C22_OneAuditRecord == Len(audit_logs) = Ended

\* C23: the worker is never stopped by an outcome of an iteration: it is
\* always in its loop, at pop_batch, asleep or handling a batch.
C23_WorkerNeverStops ==
    \A w \in Workers : worker[w].pc \in {"pop", "sleep", "persist"}

\* the request of slot s arrives in this step
Arrives(s) == handler[s].pc \in {"idle", "done"} /\ handler'[s] # handler[s]

\* C24: a request with a missing, unknown or inactive credential is answered
\* 401 in the step of its arrival, and that step increments no rate counter,
\* sets no marker and pushes nothing; no counter exists under such a credential.
C24_RejectedBeforeBody ==
    /\ [](\A k \in ApiKeys : ~ValidCredential(k) => rate[k] = NoEntry)
    /\ [][\A s \in Slots :
            (Arrives(s) /\ ~ValidCredential(handler'[s].api_key)) =>
                /\ handler'[s].pc = "done"
                /\ handler'[s].status = 401
                /\ rate' = rate /\ idemp' = idemp /\ queue' = queue]_vars

\* an inactive credential was rejected while a request of an active client is
\* about to push: only the latter was counted and marked
C24_Witness ==
    \E s, t \in Slots :
        /\ handler[s].pc = "done" /\ handler[s].api_key = "k3"
        /\ handler[s].status = 401 /\ handler[s].count = 0
        /\ handler[t].pc = "push" /\ handler[t].api_key = "k1"
        /\ rate["k1"].count = 1
        /\ rate["k3"] = NoEntry
        /\ Cardinality(idemp) = 1
        /\ queue = <<>>

\* the requests under credential k that have incremented its counter and are
\* about to set its expiry
AtExpire(k) == {s \in Slots : handler[s].pc = "expire" /\ handler[s].api_key = k}

\* C25: the increment is never rolled back: the step that answers 429 has
\* raised the counter by one, a counter goes down only by expiring, and a
\* counter equals the number of requests, admitted and denied, made under
\* its credential since it was created.
C25_NeverRolledBack ==
    /\ [](\A k \in ApiKeys :
            rate[k].count > 0 =>
                rate[k].count = life[k].passed + life[k].denied
                                    + Cardinality(AtExpire(k)))
    /\ [][\A s \in Slots :
            (Answers(s) /\ handler'[s].status = 429) =>
                /\ rate'[handler[s].api_key].count
                       = rate[handler[s].api_key].count + 1
                /\ handler'[s].count = rate'[handler[s].api_key].count]_vars
    /\ [][\A k \in ApiKeys :
            rate'[k].count < rate[k].count => Expired(rate[k], now')]_vars

\* two requests were admitted and two denied in one window: the counter is 4
C25_Witness ==
    \E k \in ApiKeys :
        /\ rate[k].count = RATE_LIMIT + 2
        /\ life[k] = [passed |-> RATE_LIMIT, denied |-> 2]

\* C27: the expiry of a rate counter is set only by the request whose
\* post-increment value is 1, to 60 seconds from that call; apart from that it
\* changes only when the counter expires, so later requests leave it alone.
C27_ExpirySetOnce ==
    /\ [](\A s \in Slots : handler[s].pc = "expire" => handler[s].count = 1)
    /\ [][\A k \in ApiKeys :
            rate'[k].deadline # rate[k].deadline =>
                \/ Expired(rate[k], now') /\ rate'[k] = NoEntry
                \/ /\ rate[k].deadline = NoTTL
                   /\ rate'[k].deadline = now + WINDOW
                   /\ \E s \in Slots :
                         /\ handler[s].pc = "expire"
                         /\ handler[s].api_key = k
                         /\ handler[s].count = 1
                         /\ handler'[s].pc # "expire"]_vars

\* a request counted as the second of its window half a window after the
\* first: the expiry is still the one set by the first
C27_Witness ==
    \E s \in Slots :
        /\ handler[s].count = 2
        /\ handler[s].admitAt = TickSeconds
        /\ rate[handler[s].api_key].count >= 2
        /\ rate[handler[s].api_key].deadline = WINDOW

\* C26: every rate counter that exists carries an expiry, or the request that
\* created it is about to set one.
C26_CounterCarriesExpiry ==
    \A k \in ApiKeys :
        rate[k].count > 0 => (rate[k].deadline # NoTTL \/ AtExpire(k) # {})

\* worker w is about to call pop_batch
CallsPopBatch(w) == worker[w].pc = "pop" /\ worker[w].batch = <<>>

\* C28: a pop_batch that returns an empty batch is followed by the sleep and by
\* no change of the events table, the sleep by the next pop_batch; a worker
\* comes to call pop_batch only from the sleep or from a persistence attempt.
C28_SleepOnEmpty ==
    /\ [][\A w \in Workers :
            (CallsPopBatch(w) /\ worker'[w] # worker[w]) =>
                \/ worker'[w].pc = "sleep" /\ worker'[w].batch = <<>>
                                           /\ events' = events
                \/ worker'[w].batch # <<>>]_vars
    /\ [][\A w \in Workers :
            (worker[w].pc = "sleep" /\ worker'[w] # worker[w]) =>
                CallsPopBatch(w)' /\ events' = events]_vars
    /\ [][\A w \in Workers :
            (~CallsPopBatch(w) /\ CallsPopBatch(w)') =>
                worker[w].pc \in {"sleep", "persist"}]_vars

\* a batch was inserted, the next pop_batch found the queue empty: the worker
\* is asleep
C28_Witness ==
    /\ worker[1].pc = "sleep"
    /\ worker[1].result = "inserted"
    /\ worker[1].batch = <<>>
    /\ Len(events) >= 1
    /\ queue = <<>>

\* C29: the latency of every record is processed_at minus its own
\* event_timestamp, in milliseconds, negative when event_timestamp is the later.
C29_LatencyAsIs ==
    \A i \in DOMAIN events :
        events[i].processing_latency_ms
            = (events[i].processed_at - events[i].event_timestamp.sec) * 1000

\* two records of one batch, one of them with an event_timestamp after
\* processed_at: its latency is negative, the other's is 0
C29_Witness ==
    \E i, j \in DOMAIN events :
        /\ events[i].processed_at = events[j].processed_at
        /\ events[i].event_timestamp.sec > events[i].processed_at
        /\ events[i].processing_latency_ms = 0 - (TickSeconds * 1000)
        /\ events[j].processing_latency_ms = 0

\* C30: records are added only by a persistence step of the worker, each with
\* status processed; no step of ingestion, analytics or the worker changes or
\* removes a record: the table before a step is a prefix of the table after it.
C30_OnlyGrows ==
    /\ [](\A i \in DOMAIN events : events[i].status = "processed")
    /\ [][/\ Len(events') >= Len(events)
          /\ \A i \in DOMAIN events : events'[i] = events[i]]_vars
    /\ [][events' # events =>
            \E w \in Workers :
                worker[w].pc = "persist" /\ worker'[w].pc = "pop"]_vars

\* two batches were inserted one after the other and a count query answered
C30_Witness ==
    /\ Len(events) = 2
    /\ events[1].processed_at < events[2].processed_at
    /\ reply.op = "count"
    /\ reply.count = 2

\* C31: a marker, once set, is in the store in every later state: no step of
\* the core removes one and the passing of time expires none, so per key one
\* call of mark_idempotent at most finds it absent.
C31_MarkerStays ==
    /\ [][idemp \subseteq idemp']_vars
    /\ [](\A p \in Pairs :
            /\ firsts[p] >= 1 => IdempKey(p[1], p[2]) \in idemp
            /\ firsts[p] <= 1)

\* the rate counter under which the event was accepted has expired, the
\* marker has not: the event submitted again a window later is a duplicate
C31_Witness ==
    \E s \in Slots :
        /\ handler[s].pc = "done"
        /\ handler[s].msg = Duplicate
        /\ handler[s].admitAt = WINDOW
        /\ 0 \in born[handler[s].api_key]
        /\ firsts[Pair(handler[s])] = 1

\* C32: the counter of a credential is changed only by a request made under
\* that credential, and the step that admits or rejects a request compares
\* that counter alone with the limit: a request is rejected only when more
\* than RATE_LIMIT requests were counted under its own credential.
C32_PerCredential ==
    /\ [][\A k \in ApiKeys :
            rate'[k] # rate[k] =>
                \E s \in Slots :
                    /\ handler[s].api_key = k
                    /\ handler[s].pc \in {"incr", "expire"}
                    /\ handler'[s] # handler[s]]_vars
    /\ [][\A s \in Slots :
            (handler[s].pc = "incr" /\ handler'[s] # handler[s]) =>
                /\ handler'[s].count = rate[handler[s].api_key].count + 1
                /\ (handler'[s].pc = "done" /\ handler'[s].status = 429)
                       <=> rate[handler[s].api_key].count >= RATE_LIMIT]_vars
    /\ [](\A s \in Slots :
            (handler[s].pc = "done" /\ handler[s].status = 429) =>
                life[handler[s].api_key].passed = RATE_LIMIT)

\* one client was rejected, after that the first request of the other client
\* is accepted
C32_Witness ==
    /\ handler[1].pc = "done"
    /\ handler[1].api_key = "k1"
    /\ handler[1].msg = Accepted
    /\ handler[1].count = 1
    /\ rate["k2"].count = RATE_LIMIT + 1
    /\ life["k2"].denied = 1

\* C33: whether an admitted request is answered "Event accepted" or
\* "Duplicate event ignored" depends on its own (client, event_id) pair only:
\* it is a duplicate iff that pair was accepted before, whatever other clients
\* submitted under the same event_id; every accepted request has pushed its
\* envelope, and no transaction fails, so the records of two clients with one
\* event_id are inserted side by side.
C33_ScopedPerClient ==
    /\ \A s \in Slots :
          (handler[s].pc = "done" /\ handler[s].status = 202) =>
              (handler[s].msg = Duplicate <=> handler[s].prior)
    /\ \A w \in Workers : worker[w].result # "error"
    /\ \A p \in Pairs : pushes[p] = accepted[p]

\* two clients have submitted the same event_id: both were accepted and the
\* two records are in the table
C33_Witness ==
    /\ accepted[<<1, "e1">>] = 1
    /\ accepted[<<2, "e1">>] = 1
    /\ Len(events) = 2
    /\ events[1].event_id = events[2].event_id
    /\ events[1].client_id # events[2].client_id
    /\ worker[1].result = "inserted"

\* the client that get_current_client resolves from the key of slot s
Resolved(s) == GetCurrentClient(handler[s].api_key).client_id

\* C34: the client_id of an envelope is the id of the client resolved from
\* the credential of the request that pushes it, and every record has the
\* client_id of such an envelope, whatever fields the request body carried.
C34_ClientFromCredential ==
    /\ [](\A i \in DOMAIN events :
            pushes[<<events[i].client_id, events[i].event_id>>] >= 1)
    /\ [](\A i \in DOMAIN queue :
            pushes[<<queue[i].client_id, queue[i].event_id>>] >= 1)
    /\ [][\A s \in Slots :
            (handler[s].pc = "push" /\ handler'[s] # handler[s]) =>
                /\ queue'[1].client_id = Resolved(s)
                /\ DOMAIN queue'[1] = Fields]_vars

\* requests whose bodies named other clients were queued and persisted under
\* the client of the key
C34_Witness ==
    /\ Len(events) = 1
    /\ events[1].client_id = 1
    /\ Len(queue) = 1
    /\ queue[1].client_id = 1

\* the envelopes worker w has received and is no longer holding: persisted,
\* or dropped by a validation failure, a failed transaction or the end of
\* the process
Handled(w) == Len(recv[w]) - Len(worker[w].batch)

\* C35: every pushed envelope is in the queue or was received by one worker;
\* what a worker holds are the envelopes it received last; the records are
\* no more than the envelopes workers have handled, and no more per pair
\* than the envelopes pushed for it: nothing is persisted twice.
C35_AtMostOnce ==
    /\ Len(pushLog) = Len(queue) + Len(recv[1]) + Len(recv[2])
    /\ \A w \in Workers :
          /\ Len(worker[w].batch) <= Len(recv[w])
          /\ \A i \in DOMAIN worker[w].batch :
                worker[w].batch[i] = recv[w][Handled(w) + i]
    /\ Len(events) <= Handled(1) + Handled(2)
    /\ \A p \in Pairs : Cardinality(RowsOf(p)) <= pushes[p]

\* of two envelopes one is persisted by a worker, the other was received by
\* the other worker, whose process ended inside pop_batch: it is nowhere
C35_Witness ==
    /\ Len(pushLog) = 2
    /\ queue = <<>>
    /\ Len(events) = 1
    /\ \E w \in Workers :
          /\ worker[w].pc = "crashed"
          /\ Len(recv[w]) = 1
          /\ ~BuildRaises(recv[w][1])

\* C36: the marker of a request is consulted only after its own increment of
\* the rate counter has passed the limit check, so a duplicate has been counted
\* too; a replay of an accepted event whose post-increment value is above
\* RATE_LIMIT is answered 429 without the marker being consulted.
C36_RateBeforeGuard ==
    \A s \in Slots :
        LET h == handler[s]
        IN /\ h.seen # "unread" => (1 <= h.count /\ h.count <= RATE_LIMIT)
           /\ h.pc = "setnx" => (1 <= h.count /\ h.count <= RATE_LIMIT)
           /\ (h.pc = "done" /\ h.msg = Duplicate) =>
                  (h.seen = "present" /\ h.count >= 1)
           /\ (h.pc = "done" /\ h.prior /\ h.count > RATE_LIMIT) =>
                  (h.status = 429 /\ h.seen = "unread")

\* an accepted event is replayed: the first replay is a duplicate, the next
\* one, the third request of the window, is answered 429
C36_Witness ==
    \E s, t \in Slots :
        /\ Pair(handler[s]) = Pair(handler[t])
        /\ handler[s].pc = "done" /\ handler[s].msg = Duplicate
        /\ handler[s].count = RATE_LIMIT
        /\ handler[t].pc = "done" /\ handler[t].prior
        /\ handler[t].status = 429
        /\ handler[t].count = RATE_LIMIT + 1

\* C37: every envelope pushed by ingest_event passes the worker's build step.
C37_AcceptedIsBuildable ==
    \A i \in DOMAIN pushLog : ~BuildRaises(Deserialize(pushLog[i]))

\* C38: every envelope removed from the queue is in the batch its pop_batch
\* call is collecting or has returned, or was handed over before and
\* persisted (the database is reachable and the envelopes are well formed).
C38_HandsOverAllRemoved ==
    Len(recv[1]) + Len(recv[2])
        = Len(events) + Len(worker[1].batch) + Len(worker[2].batch)

====
